---- MODULE Spec2Model ----
(***************************************************************************)
(* TxManager (src/network/webthree/txmanager.ts) and the gas-limit policy  *)
(* of FlashLiquidator (src/network/webthree/goldenage/flashliquidator.ts). *)
(*                                                                         *)
(* Units.  gasPrice is held in gwei (1e9 wei), revenue and maxFee_Eth in   *)
(* milli-Eth (1e15 wei).  _estimateFee is gasPrice * gasLimit / 1e18 with  *)
(* gasPrice in wei, so "fee > x Eth" is                                    *)
(*     gasPrice_gwei * gasLimit > x_milliEth * 10^6.                       *)
(* Big is an exact decimal, so no rounding is involved in the comparison.  *)
(*                                                                         *)
(* Time.  The code reads lastSeen only in "now - lastSeen <= updatePeriod",*)
(* so an entry holds its age Date.now() - lastSeen instead of lastSeen.    *)
(* Ages from StaleAge on are stale for every update period and are held as *)
(* StaleAge.                                                               *)
(***************************************************************************)
EXTENDS Integers, Sequences, FiniteSets, Bags, TLC

\* ------------------------------------------------------------------ bounds
MaxPending == 2       \* rebuilds suspended on the gas price fetch at once
MaxBorrowers == 60    \* list lengths tried by the gas limit specification
MaxAge == 3           \* ages told apart by the staleness specification

\* ------------------------------------------------------------------ inputs
\* the candidates the scanner publishes (profitability in milli-Eth)
Candidates ==
    { [address |-> "0xA", ctokenidpay |-> "cDAI", ctokenidseize |-> "cETH", profitability |-> 200],
      [address |-> "0xA", ctokenidpay |-> "cDAI", ctokenidseize |-> "cETH", profitability |-> 50],
      [address |-> "0xB", ctokenidpay |-> "cETH", ctokenidseize |-> "cDAI", profitability |-> 42] }
\* those it publishes as LiquidateWithPriceUpdate as well as Liquidate
PriceUpdateCandidates == {c \in Candidates : c.address = "0xB"}
UpdatePeriods == {0}                  \* msg.__data.time
StaleAge == (CHOOSE p \in UpdatePeriods : \A q \in UpdatePeriods : q <= p) + 1
MarketGasPrices == {50}               \* eth.getGasPrice(), gwei
ReplaceGasPrices == {40, 60}          \* prices queue.replace may compute, gwei
Oracles == {"oracle1"}
SweepPeriods == {1, 2}                \* msg.__data.time, staleness specification

\* the configured fee ceiling (constructor argument), milli-Eth
maxFee_Eth == 126

NoOracle == "null"
NoTx == [kind |-> "none"]
EmptyTx == [kind |-> "empty"]

VARIABLES
    candidates,      \* this.candidates, in property (insertion) order
    revenue,         \* this.revenue
    tx,              \* this.tx
    oracle,          \* this.oracle
    queue,           \* this.queue: the slots of the TxQueue
    intervalHandle,  \* "undefined" | "active" | "cleared"
    initPc,          \* where init() is: "new" | "queue.init" | "queue.rebase" | "ready"
    pending,         \* the _cacheTransaction calls suspended on _getInitialGasPrice (a bag of their locals)
    stopped,         \* whether stop() has returned
    last             \* the operation that ran last and the queue calls it issued

vars == <<candidates, revenue, tx, oracle, queue, intervalHandle, initPc,
          pending, stopped, last>>

\* ------------------------------------------------------- FlashLiquidator

RECURSIVE DecimalString(_)
\* String(n) for n >= 0, as a sequence of digits
DecimalString(n) ==
    IF n < 10 THEN <<n>> ELSE DecimalString(n \div 10) \o <<n % 10>>

RECURSIVE ParseDecimal(_)
\* Big(s) for a string of digits
ParseDecimal(s) ==
    IF Len(s) = 0 THEN 0
    ELSE 10 * ParseDecimal(SubSeq(s, 1, Len(s) - 1)) + s[Len(s)]

\* the string with four zeros appended
GasLimitString_FourZeros(n) == DecimalString(20 * n) \o <<0, 0, 0, 0>>

\* String(20 * borrowers.length) + "00000"
GasLimitString(n) == DecimalString(20 * n) \o <<0, 0, 0, 0, 0>>

\* _combineTokens
CombineTokens(repayList, seizeList) ==
    [k \in 1..(2 * Len(repayList)) |->
        IF k % 2 = 1 THEN repayList[(k + 1) \div 2] ELSE seizeList[k \div 2]]

LiquidateManyGasLimit(n) == ParseDecimal(GasLimitString(n)) + 100000

LiquidateManyWithPriceUpdateGasLimit(n) == ParseDecimal(GasLimitString(n)) + 400000

LiquidateMany(borrowers, repayCTokens, seizeCTokens, gasPrice) ==
    [kind |-> "Plain",
     borrowers |-> borrowers,
     cTokens |-> CombineTokens(repayCTokens, seizeCTokens),
     gasLimit |-> LiquidateManyGasLimit(Len(borrowers)),
     gasPrice |-> gasPrice]

LiquidateManyWithPriceUpdate(postable, borrowers, repayCTokens, seizeCTokens, gasPrice) ==
    [kind |-> "WithPriceUpdate",
     postable |-> postable,
     borrowers |-> borrowers,
     cTokens |-> CombineTokens(repayCTokens, seizeCTokens),
     gasLimit |-> LiquidateManyWithPriceUpdateGasLimit(Len(borrowers)),
     gasPrice |-> gasPrice]

\* oracle.postableData(): messages, signatures, symbols
PostableData(o) == <<o, o, o>>

\* ------------------------------------------------------------- TxManager

\* ---- TxQueue, the collaborator behind this.queue

\* a slot holds a live transaction, or the no-op a dump leaves in its place
Slot(t) == [kind |-> "live"]

QueueAppend(q, t) == Append(q, Slot(t))

QueueReplace(q, index, t) == [q EXCEPT ![index + 1] = Slot(t)]

QueueDump(q, index) == [q EXCEPT ![index + 1] = EmptyTx]

\* the gas prices replace(..., "clip") may compute for t: never below its own
QueueReplaceGasPrices(t) ==
    {g \in ReplaceGasPrices \cup {t.gasPrice} : g >= t.gasPrice}

\* what a step of init() or of the environment leaves in last
NoCalls == [op |-> "other", calls |-> <<>>]

\* what an event handler, or its rebuild resuming, leaves in last
Handled == [op |-> "handler", calls |-> <<>>]

\* what a candidate handler leaves in last: the message and the flag it stored
Stored(c, needsPriceUpdate) ==
    [op |-> "handler", calls |-> <<>>, event |-> c,
     needsPriceUpdate |-> needsPriceUpdate]

\* what a rebuild ending on a rejected gas price fetch leaves in last
Rejected == [op |-> "handler", calls |-> <<>>, rejected |-> TRUE]

\* what the sweep handler leaves in last: its window and how many it removed
Swept(time, removed) ==
    [op |-> "handler", calls |-> <<>>, time |-> time, removed |-> removed]

\* ---- candidate bookkeeping

HasCandidate(cands, address) == \E i \in 1..Len(cands) : cands[i].address = address

\* _storeCandidate adding a second entry for an address already stored
StoreCandidate_Appends(cands, c, needsPriceUpdate) ==
    Append(cands, [address |-> c.address,
                   repayCToken |-> c.ctokenidpay,
                   seizeCToken |-> c.ctokenidseize,
                   needsPriceUpdate |-> needsPriceUpdate,
                   revenue |-> c.profitability,
                   age |-> 0])

\* _storeCandidate: this.candidates[c.address] = {...}; an existing key keeps
\* its place in the property order, a new key goes last
StoreCandidate(cands, c, needsPriceUpdate) ==
    LET entry == [address |-> c.address,
                  repayCToken |-> c.ctokenidpay,
                  seizeCToken |-> c.ctokenidseize,
                  needsPriceUpdate |-> needsPriceUpdate,
                  revenue |-> c.profitability,
                  age |-> 0]
    IN IF HasCandidate(cands, c.address)
       THEN [i \in 1..Len(cands) |->
                IF cands[i].address = c.address THEN entry ELSE cands[i]]
       ELSE Append(cands, entry)

\* the test with "<" for "<="
Fresh_Strict(e, updatePeriod) == e.age < updatePeriod

\* now - this.candidates[addr].lastSeen <= updatePeriod
Fresh(e, updatePeriod) == e.age <= updatePeriod

\* _removeStaleCandidates
RemoveStaleCandidates(cands, updatePeriod) ==
    SelectSeq(cands, LAMBDA e : Fresh(e, updatePeriod))

\* the loop with "revenue = c.revenue" for "revenue += c.revenue"
SumRevenue_LastOnly(cands) ==
    IF Len(cands) = 0 THEN 0 ELSE cands[Len(cands)].revenue

RECURSIVE SumRevenue(_)
\* the loop's revenue += c.revenue, from 0
SumRevenue(cands) ==
    IF Len(cands) = 0 THEN 0
    ELSE SumRevenue(SubSeq(cands, 1, Len(cands) - 1)) + cands[Len(cands)].revenue

\* the loop's locals borrowers, repayCTokens, seizeCTokens, needPriceUpdate
Aggregate(cands) ==
    [borrowers |-> [i \in 1..Len(cands) |-> cands[i].address],
     repayCTokens |-> [i \in 1..Len(cands) |-> cands[i].repayCToken],
     seizeCTokens |-> [i \in 1..Len(cands) |-> cands[i].seizeCToken],
     needPriceUpdate |-> \E i \in 1..Len(cands) : cands[i].needsPriceUpdate]

\* _cacheTransaction from "if (!needPriceUpdate)" on: the value given to this.tx
BuildTx(agg, initialGasPrice, orc) ==
    IF ~agg.needPriceUpdate
    THEN LiquidateMany(agg.borrowers, agg.repayCTokens, agg.seizeCTokens,
                       initialGasPrice)
    ELSE IF orc = NoOracle
    THEN NoTx
    ELSE LiquidateManyWithPriceUpdate(PostableData(orc), agg.borrowers,
                                      agg.repayCTokens, agg.seizeCTokens,
                                      initialGasPrice)

\* Big(market).times(0.4)
DampedGasPrice(market) == (market * 4) \div 10

\* whether _cacheTransaction on cands reaches "await this._getInitialGasPrice()"
Suspends(cands) == Len(cands) > 0 /\ tx = NoTx

\* _cacheTransaction applying times(0.4) to the previous gas price as well
CacheTransaction_DampsAgain(cands) ==
    /\ revenue' = SumRevenue(cands)
    /\ IF Len(cands) = 0
       THEN /\ tx' = NoTx
            /\ pending' = pending
       ELSE IF tx # NoTx
       THEN /\ tx' = BuildTx(Aggregate(cands), DampedGasPrice(tx.gasPrice), oracle)
            /\ pending' = pending
       ELSE /\ tx' = tx
            /\ pending' = pending (+) SetToBag({Aggregate(cands)})

\* _cacheTransaction up to its first suspension, run on the candidates cands
CacheTransaction(cands) ==
    /\ revenue' = SumRevenue(cands)
    /\ IF Len(cands) = 0
       THEN /\ tx' = NoTx
            /\ pending' = pending
       ELSE IF tx # NoTx
       THEN /\ tx' = BuildTx(Aggregate(cands), tx.gasPrice, oracle)
            /\ pending' = pending
       ELSE /\ tx' = tx
            /\ pending' = pending (+) SetToBag({Aggregate(cands)})

\* ---- fees

\* _estimateFee, in gwei
EstimateFee(t) == t.gasPrice * t.gasLimit

\* the gate with ">=" for ">"
FailsGate_AtLeast(fee, rev) == fee >= maxFee_Eth * 1000000 \/ fee >= rev * 1000000

\* the gate without its comparison against the revenue
FailsGate_CeilingOnly(fee, rev) == fee > maxFee_Eth * 1000000

\* fee.gt(this.maxFee_Eth) || fee.gt(this.revenue)
FailsGate(fee, rev) == fee > maxFee_Eth * 1000000 \/ fee > rev * 1000000

\* ---- withdrawing

RECURSIVE DumpFrom(_, _, _)
\* for (let i = ...; i < this.queue.length; i++) this.queue.dump(i)
DumpFrom(q, i, calls) ==
    IF i < Len(q)
    THEN DumpFrom(QueueDump(q, i), i + 1, Append(calls, [op |-> "dump", index |-> i]))
    ELSE [queue |-> q, calls |-> calls]

\* the loop started at index 1
DumpAll_FromOne(q) == DumpFrom(q, 1, <<>>)

\* dumpAll
DumpAll(q) == DumpFrom(q, 0, <<>>)

\* ---- the operations

InitCall ==
    /\ initPc = "new"
    /\ initPc' = "queue.init"
    /\ last' = NoCalls
    /\ UNCHANGED <<candidates, revenue, tx, oracle, queue, intervalHandle,
                   pending, stopped>>

InitQueueReady ==
    /\ initPc = "queue.init"
    /\ initPc' = "queue.rebase"
    /\ last' = NoCalls
    /\ UNCHANGED <<candidates, revenue, tx, oracle, queue, intervalHandle,
                   pending, stopped>>

\* init after "await this.queue.rebase()": the handlers and the timer
InitInstall ==
    /\ initPc = "queue.rebase"
    /\ initPc' = "ready"
    /\ intervalHandle' = "active"
    /\ last' = NoCalls
    /\ UNCHANGED <<candidates, revenue, tx, oracle, queue, pending, stopped>>

OnOracleSet ==
    \E o \in Oracles :
        /\ oracle' = o
        /\ last' = Handled
        /\ UNCHANGED <<candidates, revenue, tx, queue, intervalHandle, initPc,
                       pending, stopped>>

\* the messages of the channel whose handler passes needsPriceUpdate
Published(needsPriceUpdate) ==
    IF needsPriceUpdate THEN PriceUpdateCandidates ELSE Candidates

OnCandidate(needsPriceUpdate) ==
    \E c \in Published(needsPriceUpdate) :
        LET cands == StoreCandidate(candidates, c, needsPriceUpdate)
        IN /\ initPc = "ready"
           /\ Suspends(cands) => BagCardinality(pending) < MaxPending
           /\ candidates' = cands
           /\ CacheTransaction(cands)
           /\ last' = Stored(c, needsPriceUpdate)
           /\ UNCHANGED <<oracle, queue, intervalHandle, initPc, stopped>>

OnLiquidate == OnCandidate(FALSE)

OnLiquidateWithPriceUpdate == OnCandidate(TRUE)

\* the CheckCandidatesLiquidityComplete handler for msg.__data.time = time
OnSweep(time) ==
    LET cands == RemoveStaleCandidates(candidates, time)
    IN /\ initPc = "ready"
       /\ Suspends(cands) => BagCardinality(pending) < MaxPending
       /\ candidates' = cands
       /\ CacheTransaction(cands)
       /\ last' = Swept(time, Len(candidates) - Len(cands))
       /\ UNCHANGED <<oracle, queue, intervalHandle, initPc, stopped>>

OnCheckCandidatesLiquidityComplete == \E time \in UpdatePeriods : OnSweep(time)

\* the resumed rebuild sending what it cached when the slot is free
RebuildResume_Sends ==
    \E agg \in BagToSet(pending), market \in MarketGasPrices :
        /\ tx' = BuildTx(agg, DampedGasPrice(market), oracle)
        /\ pending' = pending (-) SetToBag({agg})
        /\ queue' = IF Len(queue) = 0 /\ tx' # NoTx THEN QueueAppend(queue, tx') ELSE queue
        /\ last' = Handled
        /\ UNCHANGED <<candidates, revenue, oracle, intervalHandle, initPc, stopped>>

\* _cacheTransaction resumed with the fetched market gas price
RebuildResume ==
    \E agg \in BagToSet(pending), market \in MarketGasPrices :
        /\ tx' = BuildTx(agg, DampedGasPrice(market), oracle)
        /\ pending' = pending (-) SetToBag({agg})
        /\ last' = Handled
        /\ UNCHANGED <<candidates, revenue, oracle, queue, intervalHandle, initPc,
                       stopped>>

\* the rejection clearing the store, the revenue and the transaction
RebuildFail_Resets ==
    \E agg \in BagToSet(pending) :
        /\ pending' = pending (-) SetToBag({agg})
        /\ candidates' = <<>>
        /\ revenue' = 0
        /\ tx' = NoTx
        /\ last' = Rejected
        /\ UNCHANGED <<oracle, queue, intervalHandle, initPc, stopped>>

\* _getInitialGasPrice rejects: the suspended _cacheTransaction ends there
RebuildFail ==
    \E agg \in BagToSet(pending) :
        /\ pending' = pending (-) SetToBag({agg})
        /\ last' = Rejected
        /\ UNCHANGED <<candidates, revenue, tx, oracle, queue, intervalHandle,
                       initPc, stopped>>

\* the re-bid without "tx.gasPrice = newTx.gasPrice"
Rebid_KeepsPrice(replaceGasPrice) ==
    LET newTx == [tx EXCEPT !.gasPrice = replaceGasPrice]
        dry == [op |-> "replace", index |-> 0, dryRun |-> TRUE,
                gasPrice |-> newTx.gasPrice]
        real == [op |-> "replace", index |-> 0, dryRun |-> FALSE,
                 gasPrice |-> newTx.gasPrice]
    IN IF FailsGate(EstimateFee(newTx), revenue)
       THEN /\ queue' = queue
            /\ last' = [op |-> "tick", calls |-> <<dry>>]
            /\ tx' = tx
       ELSE /\ queue' = QueueReplace(queue, 0, newTx)
            /\ last' = [op |-> "tick", calls |-> <<dry, real>>]
            /\ tx' = tx

\* _sendIfProfitable with the dry run made on tx itself instead of a copy
Rebid_OnTxItself(replaceGasPrice) ==
    LET newTx == [tx EXCEPT !.gasPrice = replaceGasPrice]
        dry == [op |-> "replace", index |-> 0, dryRun |-> TRUE,
                gasPrice |-> newTx.gasPrice]
        real == [op |-> "replace", index |-> 0, dryRun |-> FALSE,
                 gasPrice |-> newTx.gasPrice]
    IN IF FailsGate(EstimateFee(newTx), revenue)
       THEN /\ queue' = queue
            /\ last' = [op |-> "tick", calls |-> <<dry>>]
            /\ tx' = newTx
       ELSE /\ queue' = QueueReplace(queue, 0, newTx)
            /\ last' = [op |-> "tick", calls |-> <<dry, real>>]
            /\ tx' = newTx

\* _sendIfProfitable from "const newTx = { ...tx }" on: the re-bid, the queue
\* computing replaceGasPrice in the dry run
Rebid(replaceGasPrice) ==
    LET newTx == [tx EXCEPT !.gasPrice = replaceGasPrice]
        dry == [op |-> "replace", index |-> 0, dryRun |-> TRUE,
                gasPrice |-> newTx.gasPrice]
        real == [op |-> "replace", index |-> 0, dryRun |-> FALSE,
                 gasPrice |-> newTx.gasPrice]
    IN IF FailsGate(EstimateFee(newTx), revenue)
       THEN /\ queue' = queue
            /\ last' = [op |-> "tick", calls |-> <<dry>>]
            /\ tx' = tx
       ELSE /\ queue' = QueueReplace(queue, 0, newTx)
            /\ last' = [op |-> "tick", calls |-> <<dry, real>>]
            /\ tx' = newTx

\* _sendIfProfitable without its "this.queue.length === 0" test
SendIfProfitable_AlwaysAppends(replaceGasPrice) ==
    IF FailsGate(EstimateFee(tx), revenue)
    THEN /\ queue' = DumpAll(queue).queue
         /\ last' = [op |-> "tick", calls |-> DumpAll(queue).calls]
         /\ tx' = tx
    ELSE /\ queue' = QueueAppend(queue, tx)
         /\ last' = [op |-> "tick", calls |-> <<[op |-> "append", tx |-> tx]>>]
         /\ tx' = tx

\* _sendIfProfitable(this.tx)
SendIfProfitable(replaceGasPrice) ==
    IF FailsGate(EstimateFee(tx), revenue)
    THEN /\ queue' = DumpAll(queue).queue
         /\ last' = [op |-> "tick", calls |-> DumpAll(queue).calls]
         /\ tx' = tx
    ELSE IF Len(queue) = 0
    THEN /\ queue' = QueueAppend(queue, tx)
         /\ last' = [op |-> "tick", calls |-> <<[op |-> "append", tx |-> tx]>>]
         /\ tx' = tx
    ELSE Rebid(replaceGasPrice)

\* _periodic, fired by the interval timer
Tick ==
    /\ intervalHandle = "active"
    /\ IF tx = NoTx
       THEN /\ queue' = DumpAll(queue).queue
            /\ last' = [op |-> "tick", calls |-> DumpAll(queue).calls]
            /\ tx' = tx
       ELSE \E g \in QueueReplaceGasPrices(tx) : SendIfProfitable(g)
    /\ UNCHANGED <<candidates, revenue, oracle, intervalHandle, initPc, pending,
                   stopped>>

Reset ==
    /\ candidates' = <<>>
    /\ revenue' = 0
    /\ tx' = NoTx
    /\ queue' = DumpAll(queue).queue
    /\ last' = [op |-> "reset", calls |-> DumpAll(queue).calls]
    /\ UNCHANGED <<oracle, intervalHandle, initPc, pending, stopped>>

\* a call that starts the timer again when it is not running
ClearInterval_Toggles(handle) == IF handle = "active" THEN "cleared" ELSE "active"

\* clearInterval(this.intervalHandle)
ClearInterval(handle) == IF handle = "active" THEN "cleared" ELSE handle

\* stop(), on a manager whose init() has been called; last.again tells
\* whether an earlier stop() had returned
Stop ==
    /\ initPc # "new"
    /\ candidates' = <<>>
    /\ revenue' = 0
    /\ tx' = NoTx
    /\ queue' = DumpAll(queue).queue
    /\ intervalHandle' = ClearInterval(intervalHandle)
    /\ stopped' = TRUE
    /\ last' = [op |-> "stop", calls |-> DumpAll(queue).calls, again |-> stopped]
    /\ UNCHANGED <<oracle, initPc, pending>>

\* ---- the environment

\* a millisecond passes: Date.now() grows by one, and so does every age
\* (ages from cap on are held as cap)
AdvanceTo(cap) ==
    /\ candidates' = [i \in 1..Len(candidates) |->
                        [candidates[i] EXCEPT !.age = IF @ < cap THEN @ + 1 ELSE @]]
    /\ last' = NoCalls
    /\ UNCHANGED <<revenue, tx, oracle, queue, intervalHandle, initPc, pending, stopped>>

Advance == AdvanceTo(StaleAge)

\* the transaction in slot 0 is mined and leaves the queue
QueueConfirm ==
    /\ Len(queue) > 0
    /\ queue' = Tail(queue)
    /\ last' = NoCalls
    /\ UNCHANGED <<candidates, revenue, tx, oracle, intervalHandle, initPc,
                   pending, stopped>>

\* ------------------------------------------------------------ properties

\* the dump calls a withdrawal of the queue q issues: one per slot, in order
DumpsOf(q) == [i \in 1..Len(q) |-> [op |-> "dump", index |-> i - 1]]

\* whether a fee of gasPrice * gasLimit (gwei) is above x (milli-Eth)
Above(gasPrice, gasLimit, x) == gasPrice * gasLimit > x * 1000000

\* the sum of c.revenue over the stored candidates with an address in addrs
StoredRevenue(addrs) ==
    LET sum[k \in 0..Len(candidates)] ==
            IF k = 0 THEN 0
            ELSE sum[k - 1] + (IF candidates[k].address \in addrs
                               THEN candidates[k].revenue ELSE 0)
    IN sum[Len(candidates)]

StoredAddresses == {candidates[i].address : i \in 1..Len(candidates)}

\* C1: a tick that finds a transaction whose fee is above maxFee_Eth or above
\* the revenue issues one dump per queue slot and nothing else, and leaves the
\* transaction as it is.
C1_ProfitabilityGate ==
    [][(/\ last'.op = "tick"
        /\ tx # NoTx
        /\ \/ Above(tx.gasPrice, tx.gasLimit, maxFee_Eth)
           \/ Above(tx.gasPrice, tx.gasLimit, revenue))
       => /\ last'.calls = DumpsOf(queue)
          /\ queue' = [i \in 1..Len(queue) |-> EmptyTx]
          /\ tx' = tx]_vars

\* C1 witness: a tick has withdrawn a live submission because the revenue had
\* dropped below a fee that is still under the ceiling.
C1_Witness ==
    /\ last.op = "tick"
    /\ last.calls = <<[op |-> "dump", index |-> 0]>>
    /\ tx # NoTx
    /\ Above(tx.gasPrice, tx.gasLimit, revenue)
    /\ ~Above(tx.gasPrice, tx.gasLimit, maxFee_Eth)

\* C2: a tick on an occupied slot whose current fee passes the gate, and whose
\* dry-run replace reports a gas price that fails it, issues no real replace
\* and leaves the transaction's gasPrice and the queue as they were.
C2_RebidSafety ==
    [][(/\ last'.op = "tick"
        /\ tx # NoTx
        /\ Len(queue) > 0
        /\ ~Above(tx.gasPrice, tx.gasLimit, maxFee_Eth)
        /\ ~Above(tx.gasPrice, tx.gasLimit, revenue)
        /\ \E k \in 1..Len(last'.calls) :
              /\ last'.calls[k].op = "replace"
              /\ last'.calls[k].dryRun
              /\ \/ Above(last'.calls[k].gasPrice, tx.gasLimit, maxFee_Eth)
                 \/ Above(last'.calls[k].gasPrice, tx.gasLimit, revenue))
       => /\ \A k \in 1..Len(last'.calls) :
                last'.calls[k].op = "replace" /\ last'.calls[k].dryRun
          /\ tx' = tx
          /\ queue' = queue]_vars

\* C2 witness: a tick made a dry run that reported a price above what the
\* revenue allows, and the transaction kept its lower gas price.
C2_Witness ==
    /\ last.op = "tick"
    /\ Len(last.calls) = 1
    /\ last.calls[1].op = "replace"
    /\ last.calls[1].dryRun
    /\ tx # NoTx
    /\ tx.gasPrice < last.calls[1].gasPrice
    /\ Above(last.calls[1].gasPrice, tx.gasLimit, revenue)
    /\ ~Above(tx.gasPrice, tx.gasLimit, revenue)

\* C3: whenever a transaction exists, its borrowers are exactly the stored
\* addresses and the revenue read by the gate is the sum of revenue over them.
C3_TxMatchesStore ==
    tx # NoTx =>
        /\ {tx.borrowers[i] : i \in 1..Len(tx.borrowers)} = StoredAddresses
        /\ revenue = StoredRevenue({tx.borrowers[i] : i \in 1..Len(tx.borrowers)})

\* C4: whenever a transaction exists, the revenue read by the gate is the sum
\* of revenue over all stored candidates.
C4_RevenueIsStoreSum ==
    tx # NoTx => revenue = StoredRevenue(StoredAddresses)

\* C4 witness: a transaction exists for two stored candidates of different
\* revenue.
C4_Witness ==
    /\ tx # NoTx
    /\ Len(candidates) = 2
    /\ candidates[1].revenue # candidates[2].revenue
    /\ revenue = candidates[1].revenue + candidates[2].revenue

\* C5: once stop() has returned, no tick fires (and so no append or replace
\* is issued).
C5_StopIsTerminal ==
    [][stopped => last'.op # "tick"]_vars

\* C6: an event handler, and its rebuild resuming after the gas price fetch,
\* issues no queue call and leaves the queue as it was.
C6_HandlersNeverSubmit ==
    [][last'.op = "handler" => (last'.calls = <<>> /\ queue' = queue)]_vars

\* C6 witness: a handler has run, leaving a transaction cached, while a live
\* submission sat in the queue.
C6_Witness ==
    /\ last.op = "handler"
    /\ tx # NoTx
    /\ queue = <<[kind |-> "live"]>>

\* C7: the queue never holds more than one slot.
C7_SingleSlot == Len(queue) <= 1

\* C7 witness: a tick has re-bid on the occupied slot 0, and the queue still
\* holds one slot.
C7_Witness ==
    /\ last.op = "tick"
    /\ Len(last.calls) = 2
    /\ last.calls[2].op = "replace"
    /\ ~last.calls[2].dryRun
    /\ Len(queue) = 1

\* C8: with every rebuild finished, a stored candidate that needs a price
\* update and no oracle set, there is no transaction.
C8_OracleMissingFullDrop ==
    (/\ \E i \in 1..Len(candidates) : candidates[i].needsPriceUpdate
     /\ oracle = NoOracle
     /\ pending = EmptyBag)
    => tx = NoTx

\* C9: while the candidate store is empty there is no transaction.
C9_EmptyStoreNoTx == Len(candidates) = 0 => tx = NoTx

\* C10 as stated: a Plain descriptor for n borrowers has gasLimit
\* 20000 * n + 100000, a WithPriceUpdate descriptor 20000 * n + 400000.
C10_GasLimitAsStated ==
    tx # NoTx =>
        tx.gasLimit = 20000 * Len(tx.borrowers)
                      + (IF tx.kind = "Plain" THEN 100000 ELSE 400000)

\* C10 amended: a Plain descriptor for n borrowers has gasLimit
\* 2000000 * n + 100000, a WithPriceUpdate descriptor 2000000 * n + 400000.
C10_GasLimitPolicy ==
    tx # NoTx =>
        tx.gasLimit = 2000000 * Len(tx.borrowers)
                      + (IF tx.kind = "Plain" THEN 100000 ELSE 400000)

\* C10 witness: a WithPriceUpdate descriptor for 50 borrowers, where
\* String(20 * n) has four digits.
C10_Witness ==
    /\ tx # NoTx
    /\ tx.kind = "WithPriceUpdate"
    /\ Len(tx.borrowers) = 50
    /\ tx.gasLimit = 100400000

\* the addresses in ascending order, and whether a comes before b in it
AddressOrder == <<"0xA", "0xB">>

Precedes(a, b) ==
    \E i, j \in 1..Len(AddressOrder) :
        i < j /\ AddressOrder[i] = a /\ AddressOrder[j] = b

\* C11: a transaction lists its borrowers in ascending address order, so that
\* the same candidate set gives the same lists whatever order the candidates
\* were inserted in.
C11_BuilderSortsByAddress ==
    tx # NoTx =>
        \A i, j \in 1..Len(tx.borrowers) :
            i < j => Precedes(tx.borrowers[i], tx.borrowers[j])

\* C12: a tick that finds no transaction, a stored candidate that needs a
\* price update, an oracle set and no rebuild in flight leaves a
\* WithPriceUpdate transaction behind.
C12_TickRebuilds ==
    [][(/\ last'.op = "tick"
        /\ tx = NoTx
        /\ oracle # NoOracle
        /\ pending = EmptyBag
        /\ \E i \in 1..Len(candidates) : candidates[i].needsPriceUpdate)
       => tx'.kind = "WithPriceUpdate"]_vars

\* C13: a sweep with window time removes exactly the candidates whose age
\* now - lastSeen is above time and leaves the others as they were, in their
\* order: an entry of age time - 1 or time survives, one of age time + 1 goes.
C13_SweepRemovesExactlyStale ==
    [][("time" \in DOMAIN last')
       => LET window == last'.time
          IN candidates' = SelectSeq(candidates, LAMBDA e : ~(e.age > window))]_vars

\* C13 witness: a sweep has removed one candidate and kept another whose age
\* equals the window.
C13_Witness ==
    /\ "time" \in DOMAIN last
    /\ last.removed = 1
    /\ Len(candidates) = 1
    /\ candidates[1].age = last.time

\* C14: the store never holds two entries for one address; a candidate event
\* for a stored address puts the event's tokens, flag and revenue and age 0
\* in that entry's place and changes no other entry and not their number,
\* and one for a new address adds its entry after the others.
C14_OneEntryPerAddress ==
    [][/\ \A i, j \in 1..Len(candidates') :
             candidates'[i].address = candidates'[j].address => i = j
       /\ ("event" \in DOMAIN last')
          => LET c == last'.event
                 entry == [address |-> c.address,
                           repayCToken |-> c.ctokenidpay,
                           seizeCToken |-> c.ctokenidseize,
                           needsPriceUpdate |-> last'.needsPriceUpdate,
                           revenue |-> c.profitability,
                           age |-> 0]
             IN IF c.address \in StoredAddresses
                THEN /\ Len(candidates') = Len(candidates)
                     /\ \A i \in 1..Len(candidates) :
                           candidates'[i] = IF candidates[i].address = c.address
                                            THEN entry ELSE candidates[i]
                ELSE candidates' = candidates \o <<entry>>]_vars

\* C14 witness: a candidate event that needs a price update has replaced the
\* entry of the first of two stored addresses: the entry is still first,
\* carries the event's revenue and flag and is now younger than the second.
C14_Witness ==
    /\ "event" \in DOMAIN last
    /\ Len(candidates) = 2
    /\ candidates[1].address = last.event.address
    /\ candidates[1].age < candidates[2].age
    /\ candidates[1].revenue = last.event.profitability
    /\ candidates[1].needsPriceUpdate

\* C15: a stop() called after stop() has returned ends in the state a stop()
\* ends in (store empty, no transaction, revenue 0, no timer running, every
\* queue slot dumped), and called right after it changes none of them.
C15_StopIdempotent ==
    [][(last'.op = "stop" /\ last'.again)
       => /\ candidates' = <<>>
          /\ tx' = NoTx
          /\ revenue' = 0
          /\ intervalHandle' # "active"
          /\ queue' = [i \in 1..Len(queue) |-> EmptyTx]
          /\ last.op = "stop"
             => /\ candidates' = candidates
                /\ tx' = tx
                /\ revenue' = revenue
                /\ intervalHandle' = intervalHandle
                /\ queue' = queue]_vars

\* C15 witness: a second stop() has returned, with the timer cleared and a
\* dumped submission in the queue.
C15_Witness ==
    /\ last.op = "stop"
    /\ last.again
    /\ intervalHandle = "cleared"
    /\ queue = <<EmptyTx>>

\* C16: a rebuild that waits for the market gas price starts with no
\* transaction and, up to the wait, leaves the transaction and the queue as
\* they were; when the fetch is rejected, the rebuild ends leaving the
\* transaction, the store, the queue, the revenue, the oracle and the timer
\* as they were, so that what ticks and events read afterwards is what they
\* would have read before the rejection.
C16_FailedFetchKeepsState ==
    [][/\ (last'.op = "handler" /\ BagCardinality(pending') > BagCardinality(pending))
          => (tx = NoTx /\ tx' = tx /\ queue' = queue)
       /\ ("rejected" \in DOMAIN last')
          => /\ BagCardinality(pending') = BagCardinality(pending) - 1
             /\ tx' = tx
             /\ candidates' = candidates
             /\ queue' = queue
             /\ revenue' = revenue
             /\ oracle' = oracle
             /\ intervalHandle' = intervalHandle]_vars

\* C16 witness: a fetch has been rejected while candidates were stored and a
\* live submission sat in the queue; no rebuild is in flight and there is no
\* transaction.
C16_Witness ==
    /\ "rejected" \in DOMAIN last
    /\ Len(candidates) > 0
    /\ queue = <<[kind |-> "live"]>>
    /\ pending = EmptyBag
    /\ tx = NoTx

\* C17: a tick on an occupied slot whose current fee passes the gate, and
\* whose dry-run replace reports a gas price whose fee is at most maxFee_Eth
\* and at most the revenue, issues after the dry run exactly one real
\* replace, on slot 0, and leaves the transaction with the dry-run gas price
\* and otherwise as it was.
C17_CommittedRebid ==
    [][(/\ last'.op = "tick"
        /\ tx # NoTx
        /\ Len(queue) > 0
        /\ ~Above(tx.gasPrice, tx.gasLimit, maxFee_Eth)
        /\ ~Above(tx.gasPrice, tx.gasLimit, revenue)
        /\ \E k \in 1..Len(last'.calls) :
              /\ last'.calls[k].op = "replace"
              /\ last'.calls[k].dryRun
              /\ ~Above(last'.calls[k].gasPrice, tx.gasLimit, maxFee_Eth)
              /\ ~Above(last'.calls[k].gasPrice, tx.gasLimit, revenue))
       => /\ Len(last'.calls) = 2
          /\ last'.calls[1].op = "replace" /\ last'.calls[1].dryRun
          /\ last'.calls[2].op = "replace" /\ ~last'.calls[2].dryRun
          /\ last'.calls[2].index = 0
          /\ tx' = [tx EXCEPT !.gasPrice = last'.calls[1].gasPrice]]_vars

\* C17 witness: a tick has committed a re-bid that raised the gas price: the
\* transaction carries the price its dry run reported, one the queue computed.
C17_Witness ==
    /\ last.op = "tick"
    /\ Len(last.calls) = 2
    /\ last.calls[1].dryRun
    /\ ~last.calls[2].dryRun
    /\ tx # NoTx
    /\ tx.gasPrice = last.calls[1].gasPrice
    /\ tx.gasPrice \in ReplaceGasPrices

\* C18: a tick that finds a transaction whose fee is at most maxFee_Eth and
\* at most the revenue, and an empty queue, issues one call, the append of
\* that transaction, and leaves the transaction as it was; the queue then
\* holds it in its only slot.
C18_FirstSubmission ==
    [][(/\ last'.op = "tick"
        /\ tx # NoTx
        /\ ~Above(tx.gasPrice, tx.gasLimit, maxFee_Eth)
        /\ ~Above(tx.gasPrice, tx.gasLimit, revenue)
        /\ Len(queue) = 0)
       => /\ last'.calls = <<[op |-> "append", tx |-> tx]>>
          /\ tx' = tx
          /\ queue' = <<[kind |-> "live"]>>]_vars

\* C18 witness: a tick has appended a transaction whose fee equals the
\* revenue.
C18_Witness ==
    /\ last.op = "tick"
    /\ Len(last.calls) = 1
    /\ last.calls[1].op = "append"
    /\ last.calls[1].tx = tx
    /\ tx.gasPrice * tx.gasLimit = revenue * 1000000
    /\ Len(queue) = 1

C20_ResetWithdrawsAll ==
    [][/\ last'.op \in {"reset", "stop"}
          => /\ candidates' = <<>>
             /\ revenue' = 0
             /\ tx' = NoTx
             /\ last'.calls = DumpsOf(queue)
             /\ queue' = [i \in 1..Len(queue) |-> EmptyTx]
       /\ (last'.op = "tick" /\ tx = NoTx)
          => /\ last'.calls = DumpsOf(queue)
             /\ queue' = [i \in 1..Len(queue) |-> EmptyTx]
             /\ tx' = NoTx]_vars

\* C20 witness: a reset() has dumped the one submitted transaction.
C20_Witness ==
    /\ last.op = "reset"
    /\ last.calls = <<[op |-> "dump", index |-> 0]>>
    /\ queue = <<EmptyTx>>
    /\ candidates = <<>>
    /\ revenue = 0
    /\ tx = NoTx

\* ---------------------------------------------------------- specification

Init ==
    /\ candidates = <<>>
    /\ revenue = 0
    /\ tx = NoTx
    /\ oracle = NoOracle
    /\ queue = <<>>
    /\ intervalHandle = "undefined"
    /\ initPc = "new"
    /\ pending = EmptyBag
    /\ stopped = FALSE
    /\ last = NoCalls

Next ==
    \/ InitCall
    \/ InitQueueReady
    \/ InitInstall
    \/ OnOracleSet
    \/ OnLiquidate
    \/ OnLiquidateWithPriceUpdate
    \/ OnCheckCandidatesLiquidityComplete
    \/ RebuildResume
    \/ RebuildFail
    \/ Tick
    \/ Reset
    \/ Stop
    \/ Advance
    \/ QueueConfirm

Spec == Init /\ [][Next]_vars

\* ---- the contract binding alone: descriptors for lists of every length

GasPrices == {DampedGasPrice(m) : m \in MarketGasPrices} \cup ReplaceGasPrices

Borrowers(n) == [i \in 1..n |-> i]

Tokens(n, token) == [i \in 1..n |-> token]

GasLiquidateMany ==
    \E n \in 1..MaxBorrowers, g \in GasPrices :
        /\ tx' = LiquidateMany(Borrowers(n), Tokens(n, "cDAI"), Tokens(n, "cETH"), g)
        /\ UNCHANGED <<candidates, revenue, oracle, queue, intervalHandle, initPc,
                       pending, stopped, last>>

GasLiquidateManyWithPriceUpdate ==
    \E n \in 1..MaxBorrowers, g \in GasPrices, o \in Oracles :
        /\ tx' = LiquidateManyWithPriceUpdate(PostableData(o), Borrowers(n),
                                              Tokens(n, "cDAI"), Tokens(n, "cETH"), g)
        /\ UNCHANGED <<candidates, revenue, oracle, queue, intervalHandle, initPc,
                       pending, stopped, last>>

GasNext == GasLiquidateMany \/ GasLiquidateManyWithPriceUpdate

GasSpec == Init /\ [][GasNext]_vars

\* ---- the candidate store alone, over sweep windows and ages wide enough
\* to tell now - lastSeen = updatePeriod - 1, updatePeriod and updatePeriod + 1

SweepCheck == \E time \in SweepPeriods : OnSweep(time)

SweepAdvance == AdvanceTo(MaxAge)

SweepNext ==
    \/ InitCall
    \/ InitQueueReady
    \/ InitInstall
    \/ OnLiquidate
    \/ OnLiquidateWithPriceUpdate
    \/ SweepCheck
    \/ RebuildResume
    \/ RebuildFail
    \/ SweepAdvance

SweepSpec == Init /\ [][SweepNext]_vars
====
